---- MODULE Spec2Model ----
(***************************************************************************)
(* Model of the gas turbine operating parameters dashboard (src/app.py):   *)
(* load_data, fill_missing_hours_and_interpolate and the update_output     *)
(* callback.                                                               *)
(*                                                                         *)
(* Timestamps are integers counting half hours from midnight of day 0, so  *)
(* a timestamp t is on an hour boundary iff t % Hour = 0.                  *)
(* A numeric cell is a rational <<numerator, denominator>>; the missing    *)
(* numeric value NaN is the pair with denominator 0.  A missing text cell  *)
(* is the string "nan", which is what formatting it into the title gives.  *)
(***************************************************************************)
EXTENDS Integers, Sequences, FiniteSets, TLC

\* ------------------------------------------------------------------ bounds
\* Longest filtered series handed to the normalizer.
MaxRows == 3
\* Largest timestamp (in half hours) of a row handed to the normalizer.
MaxTime == 6

\* Most files in a directory, and most rows in a file, given to the loader.
MaxFiles == 2
MaxFileRows == 2
\* Most callback requests running at once.
MaxInflight == 2

\* ------------------------------------------------------- program constants
\* resample('h'): one hour, in half hours.
Hour == 2

\* --------------------------------------------------------------- cell values
NaN == <<0, 0>>
Num(v) == <<v, 1>>
IsNaN(x) == x[2] = 0
\* Equality of two numeric cells as numbers (NaN equals nothing).
NumEq(x, y) == ~IsNaN(x) /\ ~IsNaN(y) /\ x[1] * y[2] = y[1] * x[2]
NaNText == "nan"

\* The row of a grid position that no original row lands on: every column
\* other than the index is missing.
EmptyRow(t) ==
    [Datetime |-> t, Meas |-> NaN, CharactstcUnit |-> NaNText, Description |-> NaNText]

Range(s) == {s[i] : i \in 1..Len(s)}
SetMin(S) == CHOOSE x \in S : \A y \in S : x <= y
SetMax(S) == CHOOSE x \in S : \A y \in S : x >= y

\* ------------------------------------------------------------- normalizer
\* df.drop_duplicates(subset='Datetime'): keep='first' in row order.
RECURSIVE KeepFirst(_, _)
KeepFirst(df, seen) ==
    IF df = <<>> THEN <<>>
    ELSE IF Head(df).Datetime \in seen
         THEN KeepFirst(Tail(df), seen)
         ELSE <<Head(df)>> \o KeepFirst(Tail(df), seen \cup {Head(df).Datetime})

\* Variant: keep='last'.
RECURSIVE KeepLast(_)
KeepLast(df) ==
    IF df = <<>> THEN <<>>
    ELSE IF \E j \in 2..Len(df) : df[j].Datetime = Head(df).Datetime
         THEN KeepLast(Tail(df))
         ELSE <<Head(df)>> \o KeepLast(Tail(df))

drop_duplicates_last(df) == KeepLast(df)

drop_duplicates(df) == KeepFirst(df, {})

\* The resampler sorts the frame by its index before binning.
RECURSIVE SortByDatetime(_)
SortByDatetime(df) ==
    IF df = <<>> THEN <<>>
    ELSE LET m == SetMin({df[i].Datetime : i \in 1..Len(df)})
             k == CHOOSE i \in 1..Len(df) :
                     /\ df[i].Datetime = m
                     /\ \A j \in 1..(i - 1) : df[j].Datetime # m
             rest == [i \in 1..(Len(df) - 1) |-> IF i < k THEN df[i] ELSE df[i + 1]]
         IN <<df[k]>> \o SortByDatetime(rest)

\* Bin edges of resample('h') (closed='left', origin='start_day'): the first
\* edge is the minimum floored to the hour; the last edge is the maximum
\* ceiled to the hour, or one hour past it when it is on the hour.
FirstEdge(tmin) == tmin - (tmin % Hour)
LastEdge(tmax) == IF tmax % Hour = 0 THEN tmax + Hour ELSE tmax + (Hour - (tmax % Hour))

\* Variant: the grid keeps the last bin edge as a label.
ResampleIndexCeil(tmin, tmax) ==
    [i \in 1..((LastEdge(tmax) - FirstEdge(tmin)) \div Hour + 1) |->
        FirstEdge(tmin) + (i - 1) * Hour]

\* Variant: half-hourly grid.
ResampleIndexHalf(tmin, tmax) ==
    [i \in 1..(LastEdge(tmax) - FirstEdge(tmin)) |-> FirstEdge(tmin) + (i - 1)]

\* The index of the upsampled frame: the bin edges without the last one.
ResampleIndex(tmin, tmax) ==
    [i \in 1..((LastEdge(tmax) - FirstEdge(tmin)) \div Hour) |->
        FirstEdge(tmin) + (i - 1) * Hour]

\* DatetimeIndex.inferred_freq = 'h': at least three sorted unique stamps,
\* all one hour apart.
InferredHourly(df) ==
    /\ Len(df) >= 3
    /\ \A i \in 1..(Len(df) - 1) : df[i + 1].Datetime - df[i].Datetime = Hour

\* obj.reindex(res_index): the row with that stamp, or a row of missing cells.
Reindex(df, idx) ==
    [i \in 1..Len(idx) |->
        IF \E j \in 1..Len(df) : df[j].Datetime = idx[i]
        THEN df[CHOOSE j \in 1..Len(df) : df[j].Datetime = idx[i]]
        ELSE EmptyRow(idx[i])]

\* set_index('Datetime').resample('h').asfreq().reset_index() on a frame
\* without duplicate stamps.  When the sorted frame is already hourly and as
\* long as the grid, the upsampler relabels its rows with the grid instead
\* of reindexing.
Asfreq(df) ==
    IF df = <<>> THEN <<>>
    ELSE LET sorted == SortByDatetime(df)
             idx == ResampleIndex(sorted[1].Datetime, sorted[Len(sorted)].Datetime)
         IN IF InferredHourly(sorted) /\ Len(sorted) = Len(idx)
            THEN [i \in 1..Len(idx) |-> [sorted[i] EXCEPT !.Datetime = idx[i]]]
            ELSE Reindex(sorted, idx)

\* Linear interpolation of one numeric column given as a sequence of cells
\* (method='linear', limit_direction='forward'): positions are equally
\* spaced; a missing cell between two valid ones is interpolated, one after
\* the last valid cell takes the last valid value, one before the first
\* valid cell stays missing.
Valid(ys) == {i \in 1..Len(ys) : ~IsNaN(ys[i])}

Lerp(ys, i, j, k) ==
    <<ys[i][1] * ys[j][2] * (j - k) + ys[j][1] * ys[i][2] * (k - i),
      ys[i][2] * ys[j][2] * (j - i)>>

\* Variant: forward fill instead of interpolation.
InterpolateColumnPad(ys) ==
    [k \in 1..Len(ys) |->
        IF ~IsNaN(ys[k]) THEN ys[k]
        ELSE LET before == {i \in Valid(ys) : i < k}
             IN IF before = {} THEN NaN ELSE ys[SetMax(before)]]

\* Variant: limit_area='inside', no fill after the last valid cell.
InterpolateColumnInside(ys) ==
    [k \in 1..Len(ys) |->
        IF ~IsNaN(ys[k]) THEN ys[k]
        ELSE LET before == {i \in Valid(ys) : i < k}
                 after == {j \in Valid(ys) : j > k}
             IN IF before = {} \/ after = {} THEN NaN
                ELSE Lerp(ys, SetMax(before), SetMin(after), k)]

InterpolateColumn(ys) ==
    [k \in 1..Len(ys) |->
        IF ~IsNaN(ys[k]) THEN ys[k]
        ELSE LET before == {i \in Valid(ys) : i < k}
                 after == {j \in Valid(ys) : j > k}
             IN IF before = {} THEN NaN
                ELSE IF after = {} THEN ys[SetMax(before)]
                ELSE Lerp(ys, SetMax(before), SetMin(after), k)]

\* df[numeric_columns] = df[numeric_columns].interpolate('linear'): the
\* measurement column is the numeric one.
Interpolate(df) ==
    LET ys == InterpolateColumn([i \in 1..Len(df) |-> df[i].Meas])
    IN [i \in 1..Len(df) |-> [df[i] EXCEPT !.Meas = ys[i]]]

\* Variant: an empty frame is rejected.
fill_missing_hours_and_interpolate_strict(df) ==
    IF df = <<>> THEN [err |-> "EmptyInputError", rows |-> <<>>]
    ELSE [err |-> "none", rows |-> Interpolate(Asfreq(drop_duplicates(df)))]

\* The function returns a frame for every input frame, the empty one
\* included; err names the exception it raises, if any.
fill_missing_hours_and_interpolate(df) ==
    [err |-> "none", rows |-> Interpolate(Asfreq(drop_duplicates(df)))]

\* ------------------------------------------------------------------ loader
\* pd.to_datetime(..., format="%H:%M:%S"): the time of day, in half hours, of
\* the texts that match the format; any other text fails to parse.
Clock ==
    [s \in {"00:00:00", "00:30:00", "01:00:00", "01:30:00", "02:00:00", "02:30:00",
            "03:00:00"} |->
        CASE s = "00:00:00" -> 0 [] s = "00:30:00" -> 1 [] s = "01:00:00" -> 2
          [] s = "01:30:00" -> 3 [] s = "02:00:00" -> 4 [] s = "02:30:00" -> 5
          [] s = "03:00:00" -> 6]
Parsable(s) == s \in DOMAIN Clock
DayLen == 24 * Hour

\* One file read by pd.read_excel with its Datetime column added: Date and
\* "Measurement time" joined and parsed as one timestamp.
ReadFile(file) ==
    [i \in 1..Len(file.rows) |->
        [Datetime |-> file.rows[i].Date * DayLen + Clock[file.rows[i].Time],
         Meas |-> file.rows[i].Meas,
         CharactstcUnit |-> file.rows[i].CharactstcUnit,
         Description |-> file.rows[i].Description]]

RECURSIVE Concat(_)
Concat(dfs) == IF dfs = <<>> THEN <<>> ELSE Head(dfs) \o Concat(Tail(dfs))

\* file.endswith(".XLSX")
IsXLSX(file) == file.suffix = ".XLSX"

\* load_data: the files of the directory whose name ends in ".XLSX", each
\* read and given its Datetime column, concatenated in listing order.  A
\* missing directory fails in os.listdir, a time text that does not match
\* the format fails the whole load, and pd.concat of an empty list of
\* frames fails with "No objects to concatenate".
load_data(directory) ==
    IF ~directory.exists THEN [err |-> "FileNotFoundError", rows |-> <<>>]
    ELSE LET file_list == SelectSeq(directory.files, IsXLSX)
         IN IF \E f \in 1..Len(file_list) : \E i \in 1..Len(file_list[f].rows) :
                    ~Parsable(file_list[f].rows[i].Time)
            THEN [err |-> "ValueError", rows |-> <<>>]
            ELSE IF file_list = <<>>
            THEN [err |-> "ValueError", rows |-> <<>>]
            ELSE [err |-> "none",
                  rows |-> Concat([f \in 1..Len(file_list) |-> ReadFile(file_list[f])])]

\* --------------------------------------------------------------- dashboard
\* The units of the radio buttons (the keys of directories) and what their
\* directories hold.
Units == <<"GT 5", "GT 6", "GT 7">>
Raw(ch, t, v, u) ==
    [Date |-> 0, Time |-> t, Description |-> ch, Meas |-> Num(v), CharactstcUnit |-> u]
directories ==
    [u \in Range(Units) |->
        CASE u = "GT 5" ->
                [exists |-> TRUE, files |-> <<
                    [suffix |-> ".XLSX", rows |-> <<
                        Raw("Exhaust temp", "00:00:00", 500, "degC"),
                        Raw("Lube oil pressure", "00:30:00", 2, "bar"),
                        Raw("Exhaust temp", "02:00:00", 520, "degC"),
                        Raw("Lube oil pressure", "01:00:00", 3, "bar") >>] >>]
          [] u = "GT 6" ->
                [exists |-> TRUE, files |-> <<
                    [suffix |-> ".txt", rows |-> <<>>],
                    [suffix |-> ".XLSX", rows |-> <<
                        Raw("Vibration", "00:00:00", 1, "mm/s"),
                        Raw("Exhaust temp", "01:00:00", 510, "degC") >>] >>]
          [] u = "GT 7" ->
                [exists |-> TRUE, files |-> <<
                    [suffix |-> ".XLSX", rows |-> << Raw("Speed", "00:00:00", 3000, "rpm") >>],
                    [suffix |-> ".XLSX", rows |-> << Raw("Speed", "01:00:00", 3010, "rpm") >>] >>]]

\* The dropdown value None.
None == ""
\* An entry of ctx.triggered, by the two halves of its prop_id; the entry of
\* the initial call is the empty prop_id ".".
Radio == [id |-> "directory-radio", prop |-> "value"]
Dropdown == [id |-> "description-dropdown", prop |-> "value"]
NoTrigger == [id |-> "", prop |-> ""]

\* df["Description of measuring point"].unique(): first-seen order.
RECURSIVE Unique(_, _)
Unique(df, seen) ==
    IF df = <<>> THEN <<>>
    ELSE IF Head(df).Description \in seen
         THEN Unique(Tail(df), seen)
         ELSE <<Head(df).Description>> \o
              Unique(Tail(df), seen \cup {Head(df).Description})

Raise(where, what) ==
    [raised |-> what, raised_in |-> where, options |-> <<>>, value |-> None,
     selected |-> None, filtered_df |-> <<>>,
     connected_df |-> [err |-> "none", rows |-> <<>>], title |-> <<>>]

\* ctx.triggered[0]["prop_id"].split(".")[0]
TriggeredInput(triggered) == triggered[1].id

\* connected_df['CharactstcUnit'].iloc[0]
TitleUnit(filtered_df, connected_df) == connected_df[1].CharactstcUnit

\* The callback: what it returns for its two inputs and ctx.triggered, or
\* the exception it ends with and the function that raised it.
update_output(directory_name, selected_description_in, triggered) ==
    LET triggered_input == TriggeredInput(triggered)
        df == load_data(directories[directory_name])
        description_options == Unique(df.rows, {})
        reset == triggered_input = "directory-radio" \/ selected_description_in = None
        selected_description ==
            IF reset THEN description_options[1] ELSE selected_description_in
        filtered_df ==
            SelectSeq(df.rows, LAMBDA r : r.Description = selected_description)
        connected_df == fill_missing_hours_and_interpolate(filtered_df)
    IN  IF df.err # "none" THEN Raise("load_data", df.err)
        ELSE IF reset /\ description_options = <<>>
        THEN Raise("update_output", "IndexError")
        ELSE IF connected_df.err # "none"
        THEN [Raise("fill_missing_hours_and_interpolate", connected_df.err)
                EXCEPT !.selected = selected_description,
                       !.filtered_df = filtered_df,
                       !.connected_df = connected_df]
        ELSE IF connected_df.rows = <<>>
        THEN [Raise("update_output", "IndexError")
                EXCEPT !.selected = selected_description,
                       !.filtered_df = filtered_df,
                       !.connected_df = connected_df]
        ELSE [raised |-> "none", raised_in |-> "",
              options |-> description_options,
              value |-> selected_description,
              selected |-> selected_description,
              filtered_df |-> filtered_df,
              connected_df |-> connected_df,
              title |-> <<"Data for ", selected_description, " (",
                          TitleUnit(filtered_df, connected_df.rows), ")">>]

\* ------------------------------------------------------------------ state
VARIABLES
    df_in,      \* normalizer: the filtered series passed in
    connected,  \* normalizer: what fill_missing_hours_and_interpolate returned
    npc,        \* normalizer: "call" before the call, "done" after it
    directory,  \* loader: the directory passed in
    loaded,     \* loader: what load_data returned
    lpc,        \* loader: "call" before the call, "done" after it
    radio,      \* dashboard: directory-radio.value in the browser
    dd_value,   \* dashboard: description-dropdown.value in the browser
    dd_options, \* dashboard: description-dropdown.options in the browser
    inflight,   \* dashboard: callback requests sent and not yet handled
    last        \* dashboard: the invocation handled last and its outcome

vars == <<df_in, connected, npc, directory, loaded, lpc,
          radio, dd_value, dd_options, inflight, last>>
uiVars == <<radio, dd_value, dd_options, inflight, last>>
normVars == <<df_in, connected, npc>>
loadVars == <<directory, loaded, lpc>>

NoDirectory == [exists |-> FALSE, files |-> <<>>]
IdleNorm == df_in = <<>> /\ connected = [err |-> "none", rows |-> <<>>] /\ npc = "idle"
IdleLoad == directory = NoDirectory /\ loaded = [err |-> "none", rows |-> <<>>] /\ lpc = "idle"
NoInvocation ==
    [request |-> [directory_name |-> "", selected_description |-> None,
                  triggered |-> <<>>, fresh |-> FALSE],
     result |-> Raise("", "none")]
IdleUi ==
    /\ radio = "" /\ dd_value = None /\ dd_options = <<>>
    /\ inflight = {} /\ last = NoInvocation

\* ------------------------------------------- normalizer on bounded inputs
Channel == "Exhaust temp"
Cells ==
    { [Meas |-> NaN, CharactstcUnit |-> "degC"],
      [Meas |-> Num(10), CharactstcUnit |-> "degC"],
      [Meas |-> Num(20), CharactstcUnit |-> "degF"] }
RowSet ==
    { [Datetime |-> t, Meas |-> c.Meas, CharactstcUnit |-> c.CharactstcUnit,
       Description |-> Channel] : t \in 0..MaxTime, c \in Cells }
SeriesSet == UNION { [1..n -> RowSet] : n \in 0..MaxRows }

NormInit ==
    /\ df_in \in SeriesSet
    /\ connected = [err |-> "none", rows |-> <<>>]
    /\ npc = "call"
    /\ IdleLoad
    /\ IdleUi

Normalize ==
    /\ npc = "call"
    /\ connected' = fill_missing_hours_and_interpolate(df_in)
    /\ npc' = "done"
    /\ UNCHANGED <<df_in, loadVars, uiVars>>

NormNext == Normalize

NormSpec == NormInit /\ [][NormNext]_vars

\* ------------------------------------------------ loader on bounded inputs
RawRowSet ==
    { [Date |-> 0, Time |-> t, Description |-> Channel, Meas |-> Num(10),
       CharactstcUnit |-> "degC"] : t \in {"00:00:00", "00:30:00", "7h30"} }
FileSet ==
    { [suffix |-> x, rows |-> r] :
        x \in {".XLSX", ".xlsx"},
        r \in UNION { [1..n -> RawRowSet] : n \in 0..MaxFileRows } }
DirectorySet ==
    {NoDirectory} \cup
    { [exists |-> TRUE, files |-> fs] :
        fs \in UNION { [1..n -> FileSet] : n \in 0..MaxFiles } }

LoadInit ==
    /\ directory \in DirectorySet
    /\ loaded = [err |-> "none", rows |-> <<>>]
    /\ lpc = "call"
    /\ IdleNorm
    /\ IdleUi

Load ==
    /\ lpc = "call"
    /\ loaded' = load_data(directory)
    /\ lpc' = "done"
    /\ UNCHANGED <<directory, normVars, uiVars>>

LoadNext == Load

LoadSpec == LoadInit /\ [][LoadNext]_vars

\* -------------------------------------------------- dashboard in the browser
\* The layout: the radio starts on "GT 5", the dropdown has no value and no
\* options, and the callback is requested once with no trigger.
Init ==
    /\ radio = "GT 5"
    /\ dd_value = None
    /\ dd_options = <<>>
    /\ inflight = {[directory_name |-> "GT 5", selected_description |-> None,
                    triggered |-> <<NoTrigger>>, fresh |-> TRUE]}
    /\ last = NoInvocation
    /\ IdleNorm
    /\ IdleLoad

\* A new request supersedes the ones still running: their results are dropped.
Send(req) ==
    inflight' = {[r EXCEPT !.fresh = FALSE] : r \in inflight} \cup {req}

\* The user picks another unit.
SelectUnit(u) ==
    /\ Cardinality(inflight) < MaxInflight
    /\ u # radio
    /\ radio' = u
    /\ Send([directory_name |-> u, selected_description |-> dd_value,
             triggered |-> <<Radio>>, fresh |-> TRUE])
    /\ UNCHANGED <<dd_value, dd_options, last, normVars, loadVars>>

\* The user picks a channel among the options shown, or clears the dropdown.
SelectChannel(c) ==
    /\ Cardinality(inflight) < MaxInflight
    /\ c # dd_value
    /\ dd_value' = c
    /\ Send([directory_name |-> radio, selected_description |-> c,
             triggered |-> <<Dropdown>>, fresh |-> TRUE])
    /\ UNCHANGED <<radio, dd_options, last, normVars, loadVars>>

\* Both inputs change before the callback is requested: one request reports
\* both in ctx.triggered, in the order the changes were registered.
SelectBoth(u, c, triggered) ==
    /\ Cardinality(inflight) < MaxInflight
    /\ u # radio /\ c # dd_value
    /\ radio' = u
    /\ dd_value' = c
    /\ Send([directory_name |-> u, selected_description |-> c,
             triggered |-> triggered, fresh |-> TRUE])
    /\ UNCHANGED <<dd_options, last, normVars, loadVars>>

\* The server runs the callback for a request.  The outputs of the latest
\* request are applied in the browser; an exception leaves them as they are.
Handle(r) ==
    LET res == update_output(r.directory_name, r.selected_description, r.triggered)
    IN  /\ last' = [request |-> r, result |-> res]
        /\ inflight' = inflight \ {r}
        /\ IF r.fresh /\ res.raised = "none"
           THEN dd_options' = res.options /\ dd_value' = res.value
           ELSE UNCHANGED <<dd_options, dd_value>>
        /\ UNCHANGED <<radio, normVars, loadVars>>

\* As Handle, and the dropdown value the callback wrote counts as a change of
\* its own input: the callback is requested again.
HandleAndReinvoke(r) ==
    LET res == update_output(r.directory_name, r.selected_description, r.triggered)
    IN  /\ r.fresh /\ res.raised = "none" /\ res.value # dd_value
        /\ last' = [request |-> r, result |-> res]
        /\ dd_options' = res.options
        /\ dd_value' = res.value
        /\ inflight' = (inflight \ {r}) \cup
                {[directory_name |-> radio, selected_description |-> res.value,
                  triggered |-> <<Dropdown>>, fresh |-> TRUE]}
        /\ UNCHANGED <<radio, normVars, loadVars>>

Next ==
    \/ \E u \in Range(Units) : SelectUnit(u)
    \/ \E c \in Range(dd_options) \cup {None} : SelectChannel(c)
    \/ \E r \in inflight : Handle(r)
    \/ \E r \in inflight : HandleAndReinvoke(r)

Spec == Init /\ [][Next]_vars

\* The same dashboard when two changes may reach the callback in one request.
MergedNext ==
    \/ Next
    \/ \E u \in Range(Units) : \E c \in Range(dd_options) \cup {None} :
       \E t \in {<<Radio, Dropdown>>, <<Dropdown, Radio>>} : SelectBoth(u, c, t)

MergedSpec == Init /\ [][MergedNext]_vars

\* ---------------------------------------------- properties of the normalizer
Floor(t) == t - (t % Hour)
Ceil(t) == IF t % Hour = 0 THEN t ELSE t + Hour - (t % Hour)
OnHour(t) == t % Hour = 0
InStamps == {df_in[i].Datetime : i \in 1..Len(df_in)}
Out == connected.rows
NormDone == npc = "done" /\ connected.err = "none"
\* The output stamps are exactly lo, lo + 1h, ..., hi, in this order.
OutRunsHourly(lo, hi) ==
    /\ Len(Out) = (hi - lo) \div Hour + 1
    /\ \A i \in 1..Len(Out) : Out[i].Datetime = lo + (i - 1) * Hour
\* The first input row, in row order, carrying stamp t.
FirstAt(t) == df_in[SetMin({i \in 1..Len(df_in) : df_in[i].Datetime = t})]
\* Output position k holds an original value of the measurement field: an
\* input row carries the stamp of position k and the surviving one has a value.
HoldsOriginal(k) ==
    /\ Out[k].Datetime \in InStamps
    /\ ~IsNaN(FirstAt(Out[k].Datetime).Meas)
Known == {k \in 1..Len(Out) : HoldsOriginal(k)}

\* C1 as stated: for a non-empty input the output stamps run from the minimum
\* input stamp floored to the hour to the maximum input stamp ceiled to the
\* hour, one per hour.
C1_FloorToCeil ==
    (NormDone /\ df_in # <<>>) =>
        OutRunsHourly(Floor(SetMin(InStamps)), Ceil(SetMax(InStamps)))

\* C1 amended: for a non-empty input the output stamps run from the minimum
\* input stamp floored to the hour to the maximum input stamp floored to the
\* hour, one per hour, none missing and none outside.
C1_FloorToFloor ==
    (NormDone /\ df_in # <<>>) =>
        OutRunsHourly(Floor(SetMin(InStamps)), Floor(SetMax(InStamps)))

C1_Witness ==
    /\ NormDone /\ df_in # <<>>
    /\ ~OnHour(SetMax(InStamps))
    /\ Len(Out) >= 2
    /\ Out[Len(Out)].Datetime = Floor(SetMax(InStamps))
    /\ Out[Len(Out)].Datetime < SetMax(InStamps)

\* C2 as stated: every output position before the first or after the last
\* position holding an original measurement value is undefined.
C2_NoExtrapolation ==
    NormDone =>
        \A k \in 1..Len(Out) :
            ((\A j \in Known : j > k) \/ (\A j \in Known : j < k))
                => IsNaN(Out[k].Meas)

\* The de-duplicated rows are themselves one hour apart, all off the hour:
\* the upsampler relabels them onto the grid instead of reindexing.
OffHourHourly ==
    /\ Cardinality(InStamps) >= 3
    /\ \A t \in InStamps : ~OnHour(t)
    /\ InStamps = {SetMin(InStamps) + i * Hour : i \in 0..(Cardinality(InStamps) - 1)}

\* C2 amended: an output position before the first position holding an
\* original measurement value is undefined (unless the rows are an hourly
\* off-hour series relabelled onto the grid), and an output position after
\* the last position holding an original value carries a copy of that last
\* value: trailing positions are filled, not left undefined.
C2_LeadingUndefinedTrailingCopied ==
    NormDone =>
        \A k \in 1..Len(Out) :
            /\ ((\A j \in Known : j > k) /\ ~OffHourHourly) => IsNaN(Out[k].Meas)
            /\ (Known # {} /\ \A j \in Known : j < k) =>
                    Out[k].Meas = FirstAt(Out[SetMax(Known)].Datetime).Meas

\* The last input row is off the hour, the final grid hour has no original
\* row and carries the value of the hour before; the first hour is undefined.
C2_Witness ==
    /\ NormDone /\ Len(Out) = 3
    /\ ~OnHour(SetMax(InStamps))
    /\ Out[3].Datetime \notin InStamps
    /\ Known = {2}
    /\ IsNaN(Out[1].Meas)
    /\ Out[2].Meas = Num(10) /\ Out[3].Meas = Num(10)

\* C6 as stated: a stamp shared by several input rows with different values
\* has exactly one output row, carrying the values of the first such row.
SharedStamps ==
    {t \in InStamps : \E i, j \in 1..Len(df_in) :
        /\ i < j /\ df_in[i].Datetime = t /\ df_in[j].Datetime = t
        /\ \/ df_in[i].Meas # df_in[j].Meas
           \/ df_in[i].CharactstcUnit # df_in[j].CharactstcUnit}
RowsAt(t) == {k \in 1..Len(Out) : Out[k].Datetime = t}
C6_FirstWinsEverywhere ==
    NormDone =>
        \A t \in SharedStamps :
            /\ Cardinality(RowsAt(t)) = 1
            /\ \A k \in RowsAt(t) :
                /\ Out[k].Meas = FirstAt(t).Meas
                /\ Out[k].CharactstcUnit = FirstAt(t).CharactstcUnit

\* C6 amended: a stamp on an hour boundary shared by several input rows with
\* different values has exactly one output row; it carries the text values of
\* the first such row and its measurement value when that row has one (a
\* missing one is filled like any other gap).
C6_FirstWinsOnHour ==
    NormDone =>
        \A t \in SharedStamps :
            OnHour(t) =>
                /\ Cardinality(RowsAt(t)) = 1
                /\ \A k \in RowsAt(t) :
                    /\ Out[k].CharactstcUnit = FirstAt(t).CharactstcUnit
                    /\ Out[k].Description = FirstAt(t).Description
                    /\ ~IsNaN(FirstAt(t).Meas) => Out[k].Meas = FirstAt(t).Meas

C6_Witness ==
    /\ NormDone
    /\ \E t \in SharedStamps :
        /\ OnHour(t)
        /\ FirstAt(t).Meas = Num(10)
        /\ \E j \in 1..Len(df_in) : df_in[j].Datetime = t /\ df_in[j].Meas = Num(20)
        /\ \E k \in RowsAt(t) : Out[k].Meas = Num(10) /\ Out[k].CharactstcUnit = "degC"

\* C7: an output position that holds no original measurement value but has
\* one before and one after it carries the linear interpolation, by time,
\* between the nearest such positions; a position holding an original value
\* keeps it.
C7_LinearInterpolation ==
    NormDone =>
        \A k \in 1..Len(Out) :
            IF k \in Known
            THEN Out[k].Meas = FirstAt(Out[k].Datetime).Meas
            ELSE ((\E i \in Known : i < k) /\ (\E j \in Known : j > k)) =>
                LET i == SetMax({x \in Known : x < k})
                    j == SetMin({x \in Known : x > k})
                    ti == Out[i].Datetime
                    tj == Out[j].Datetime
                    tk == Out[k].Datetime
                    vi == FirstAt(ti).Meas
                    vj == FirstAt(tj).Meas
                IN /\ ~IsNaN(Out[k].Meas)
                   /\ Out[k].Meas[1] * vi[2] * vj[2] * (tj - ti)
                        = Out[k].Meas[2] * (vi[1] * vj[2] * (tj - tk) + vj[1] * vi[2] * (tk - ti))

\* 10 at hour 0 and 20 at hour 2 give 15 at hour 1; and a gap of three hours
\* gives thirds.
C7_Witness ==
    /\ NormDone
    /\ \E k \in 1..Len(Out) :
        /\ k \notin Known /\ k - 1 \in Known /\ k + 1 \in Known
        /\ Out[k - 1].Meas = Num(10) /\ Out[k + 1].Meas = Num(20)
        /\ NumEq(Out[k].Meas, Num(15))

\* C8: for a non-empty input the output stamps are ascending, consecutive
\* rows exactly one hour apart, so no stamp occurs twice.
C8_HourlyIncreasing ==
    (NormDone /\ df_in # <<>>) =>
        /\ \A i \in 1..(Len(Out) - 1) : Out[i + 1].Datetime = Out[i].Datetime + Hour
        /\ \A i, j \in 1..Len(Out) : i < j => Out[i].Datetime < Out[j].Datetime

C8_Witness ==
    /\ NormDone /\ Len(df_in) = 3 /\ Len(Out) >= 3
    /\ df_in[1].Datetime > df_in[2].Datetime
    /\ df_in[1].Datetime = df_in[3].Datetime

\* -------------------------------------------------- properties of the loader
Matching == SelectSeq(directory.files, IsXLSX)
WellFormed ==
    \A f \in 1..Len(Matching) : \A i \in 1..Len(Matching[f].rows) :
        Parsable(Matching[f].rows[i].Time)
RECURSIVE SumRows(_)
SumRows(fs) == IF fs = <<>> THEN 0 ELSE Len(Head(fs).rows) + SumRows(Tail(fs))
\* Position in the table of row i of matching file f.
TablePos(f, i) == SumRows(SubSeq(Matching, 1, f - 1)) + i

\* C4 as stated: for every existing directory with zero or more well-formed
\* matching files, load_data returns a table with as many rows as the files
\* have together, in file order and then in-file order, none dropped.
C4_RowCount ==
    (lpc = "done" /\ directory.exists /\ WellFormed) =>
        /\ loaded.err = "none"
        /\ Len(loaded.rows) = SumRows(Matching)
        /\ \A f \in 1..Len(Matching) : \A i \in 1..Len(Matching[f].rows) :
            /\ loaded.rows[TablePos(f, i)].Meas = Matching[f].rows[i].Meas
            /\ loaded.rows[TablePos(f, i)].Datetime
                 = Matching[f].rows[i].Date * DayLen + Clock[Matching[f].rows[i].Time]

\* ----------------------------------------------- properties of the dashboard
Handled == last.request.triggered # <<>>
Req == last.request
Res == last.result
Contains(title, x) == \E i \in 1..Len(title) : title[i] = x
\* The distinct channels of a unit's files, and the unit label its rows give
\* a channel.
ChannelsOf(u) == Unique(load_data(directories[u]).rows, {})
LabelsOf(u, ch) ==
    {r.CharactstcUnit : r \in {x \in Range(load_data(directories[u]).rows) : x.Description = ch}}
\* The invocation filtered on a channel and no row of the unit matched.
FilteredEmpty == Handled /\ Res.selected # None /\ Res.filtered_df = <<>>

\* C3 as stated: whenever the callback runs for a channel present in the
\* unit's files, it returns a chart whose title contains the channel's name
\* and the unit label of the channel's rows.
C3_TitleHasChannelAndUnit ==
    (Handled /\ Res.selected \in Range(ChannelsOf(Req.directory_name))) =>
        /\ Res.raised = "none"
        /\ Contains(Res.title, Res.selected)
        /\ \A l \in LabelsOf(Req.directory_name, Res.selected) : Contains(Res.title, l)

C9_UnitChangeResetsChannel ==
    (Handled /\ Radio \in Range(Req.triggered)) =>
        /\ Res.raised = "none"
        /\ Res.value = ChannelsOf(Req.directory_name)[1]

\* C10 as stated: the channel an invocation filters on is one of the distinct
\* channels of its unit's files, so the filtered series is not empty, and the
\* channel value returned is one of the options returned.
C10_FilterChannelOfUnit ==
    Handled =>
        /\ Res.selected \in Range(ChannelsOf(Req.directory_name))
        /\ Res.filtered_df # <<>>
        /\ Res.raised = "none"
        /\ Res.value \in Range(Res.options)

====
